---- MODULE Spec2Model ----
(***************************************************************************)
(* Model of the jinlei RAG demo: the index build script                    *)
(* (build_knowledge_base.py), the Streamlit chat application (app.py) and  *)
(* the retrieval smoke script (test_retrieval.py).  The two programs share *)
(* one piece of state, the FAISS index directory on disk.                  *)
(***************************************************************************)
EXTENDS Integers, Sequences, FiniteSets, TLC

\* ------------------------------------------------------------------------
\* Bounds of the model
\* ------------------------------------------------------------------------
MaxFiles == 2      \* files found by os.walk in one run
MaxPages == 1      \* pages one loader returns
MaxChunks == 4     \* chunks one splitting pass returns
MaxBuilds == 2     \* runs of build_index
MaxScore == 2      \* similarity scores are 0..MaxScore
MaxTurns == 2      \* questions per chat session
MaxK == 4          \* values of k tried against a retrieval
MaxSessions == 2   \* browser sessions opened one after the other
ScoreThreshold == 1  \* the confidence threshold the specification asks for

\* ------------------------------------------------------------------------
\* Configuration constants of the two programs
\* ------------------------------------------------------------------------
BUILD_EMBEDDING_MODEL == "bge-m3"
APP_EMBEDDING_MODEL == "m3e-base"
TEST_EMBEDDING_MODEL == "bge-m3"
SearchK == 3
TestK == 3
ChunkSize1 == 1000
ChunkOverlap1 == 200
ChunkSize2 == 400
ChunkOverlap2 == 100

Models == {BUILD_EMBEDDING_MODEL, APP_EMBEDDING_MODEL, TEST_EMBEDDING_MODEL}

\* ------------------------------------------------------------------------
\* Files of the knowledge directory and of the index directory
\* ------------------------------------------------------------------------
Exts == {".pdf", ".PDF", ".docx", ".txt"}
LoadResults == {-1} \cup (0..MaxPages)     \* -1: loader.load() raises

lower(ext) == IF ext = ".PDF" THEN ".pdf" ELSE ext
LOADER_MAPPING == {".pdf", ".docx"}

\* A file of the knowledge directory: its extension and what its loader does.
\* A file no loader is tried on carries load = 0.
KbFiles ==
  { f \in [ext : Exts, load : LoadResults] :
      lower(f.ext) \notin LOADER_MAPPING => f.load = 0 }

RECURSIVE SeqsUpTo(_, _)
SeqsUpTo(S, n) ==
  IF n = 0 THEN {<<>>}
  ELSE LET shorter == SeqsUpTo(S, n - 1)
       IN  shorter \cup { Append(q, x) : q \in {r \in shorter : Len(r) = n - 1}, x \in S }

\* documents after the loop over os.walk: the pages of every file whose
\* extension is mapped and whose loader did not raise
RECURSIVE LoadAll(_)
LoadAll(files) ==
  IF files = <<>> THEN 0
  ELSE LET f == Head(files)
           got == IF lower(f.ext) \in LOADER_MAPPING /\ f.load >= 0 THEN f.load ELSE 0
       IN  got + LoadAll(Tail(files))

NoFile == [kind |-> "none", n |-> 0, model |-> "", build |-> 0]
Corrupt == [kind |-> "corrupt", n |-> 0, model |-> "", build |-> 0]
IndexFile(n, model, build) == [kind |-> "index", n |-> n, model |-> model, build |-> build]

NoIndexDir == [exists |-> FALSE, faiss |-> NoFile, pkl |-> NoFile]

VARIABLES
  kbDirExists,   \* os.path.exists(KNOWLEDGE_DIR)
  disk,          \* FAISS_INDEX_PATH: the directory and its two files
  bpc,           \* position of the build script
  files,         \* files os.walk has listed and the loop has not yet visited
  documents,     \* len(documents)
  texts,         \* len(texts)
  firstPass,     \* len(texts) after the first splitting pass, -1 before it
  secondPassRan, \* the small-chunk pass ran in the current run
  db,            \* the index built in memory by FAISS.from_documents
  buildOutcome,  \* diagnostic the last run of the script ended with
  preRun,        \* disk when the current (or last) run started
  nBuilds,       \* runs of build_index so far
  cache,         \* st.cache_resource entry of load_rag_chain
  loadCount,     \* executions of the body of load_rag_chain
  initError,     \* st.error shown by the body of load_rag_chain
  session,       \* number of the browser session now talking to the app
  rag_chain,     \* rag_chain of the session's latest script run
  hasMessages,   \* "messages" in st.session_state
  messages,      \* st.session_state.messages
  request,       \* the latest question handled by app.py
  retrieval      \* the search made by test_retrieval.py

buildVars == <<kbDirExists, disk, bpc, files, documents, texts, firstPass,
               secondPassRan, db, buildOutcome, preRun, nBuilds>>

appVars == <<cache, loadCount, initError, session, rag_chain, hasMessages,
             messages, request, retrieval>>

vars == <<kbDirExists, disk, bpc, files, documents, texts, firstPass,
          secondPassRan, db, buildOutcome, preRun, nBuilds,
          cache, loadCount, initError, session, rag_chain, hasMessages,
          messages, request, retrieval>>

\* ------------------------------------------------------------------------
\* build_knowledge_base.py
\* ------------------------------------------------------------------------
\* "if not documents:"
NotDocuments_skipped(d) == FALSE
NotDocuments(d) == d = 0

\* the first "if not texts:", which starts the second pass
RetryNeeded_short(t) == t <= 1
RetryNeeded(t) == t = 0

\* the second "if not texts:", which returns
NotTexts(t) == t = 0

\* number of chunks a splitting pass may return for the loaded documents
split_documents(docs, chunk_size, chunk_overlap) ==
  IF docs = 0 THEN {0} ELSE 0..MaxChunks

\* locals of build_index are gone once it returns
BuildLocalsReset ==
  /\ files' = <<>>
  /\ documents' = 0
  /\ texts' = 0
  /\ firstPass' = -1
  /\ secondPassRan' = FALSE
  /\ db' = NoFile

InitBuild ==
  /\ kbDirExists = FALSE
  /\ disk = NoIndexDir
  /\ bpc = "idle"
  /\ files = <<>>
  /\ documents = 0
  /\ texts = 0
  /\ firstPass = -1
  /\ secondPassRan = FALSE
  /\ db = NoFile
  /\ buildOutcome = "none"
  /\ preRun = NoIndexDir
  /\ nBuilds = 0

\* __main__ when the knowledge directory does not exist
MainCreateDir ==
  /\ bpc = "idle"
  /\ ~kbDirExists
  /\ kbDirExists' = TRUE
  /\ buildOutcome' = "dir_created"
  /\ UNCHANGED <<disk, bpc, files, documents, texts, firstPass, secondPassRan,
                 db, preRun, nBuilds>>
  /\ UNCHANGED appVars

\* __main__ calls build_index; os.walk lists the directory
BuildStart ==
  /\ bpc = "idle"
  /\ kbDirExists
  /\ nBuilds < MaxBuilds
  /\ \E fs \in SeqsUpTo(KbFiles, MaxFiles) : files' = fs
  /\ nBuilds' = nBuilds + 1
  /\ preRun' = disk
  /\ buildOutcome' = "running"
  /\ bpc' = "load"
  /\ UNCHANGED <<kbDirExists, disk, documents, texts, firstPass, secondPassRan, db>>
  /\ UNCHANGED appVars

\* step 1: load every supported file, return if nothing was loaded
LoadDocuments ==
  /\ bpc = "load"
  /\ LET docs == LoadAll(files)
     IN  IF NotDocuments(docs)
         THEN /\ buildOutcome' = "no_documents"
              /\ bpc' = "idle"
              /\ BuildLocalsReset
         ELSE /\ documents' = docs
              /\ files' = <<>>
              /\ bpc' = "split1"
              /\ UNCHANGED <<texts, firstPass, secondPassRan, db, buildOutcome>>
  /\ UNCHANGED <<kbDirExists, disk, preRun, nBuilds>>
  /\ UNCHANGED appVars

\* step 2, first pass: chunk_size 1000, overlap 200
SplitFirst ==
  /\ bpc = "split1"
  /\ \E n \in split_documents(documents, ChunkSize1, ChunkOverlap1) :
       /\ texts' = n
       /\ firstPass' = n
       /\ bpc' = IF RetryNeeded(n) THEN "split2" ELSE "checked"
  /\ UNCHANGED <<kbDirExists, disk, files, documents, secondPassRan, db,
                 buildOutcome, preRun, nBuilds>>
  /\ UNCHANGED appVars

\* step 2, second pass: chunk_size 400, overlap 100
SplitSecond ==
  /\ bpc = "split2"
  /\ \E n \in split_documents(documents, ChunkSize2, ChunkOverlap2) :
       texts' = n
  /\ secondPassRan' = TRUE
  /\ bpc' = "checked"
  /\ UNCHANGED <<kbDirExists, disk, files, documents, firstPass, db,
                 buildOutcome, preRun, nBuilds>>
  /\ UNCHANGED appVars

\* the second "if not texts": return before FAISS is touched
CheckTexts ==
  /\ bpc = "checked"
  /\ IF NotTexts(texts)
     THEN /\ buildOutcome' = "no_chunks"
          /\ bpc' = "idle"
          /\ BuildLocalsReset
     ELSE /\ bpc' = "embed"
          /\ UNCHANGED <<files, documents, texts, firstPass, secondPassRan, db,
                         buildOutcome>>
  /\ UNCHANGED <<kbDirExists, disk, preRun, nBuilds>>
  /\ UNCHANGED appVars

\* the except branch of step 3: print the error, return
BuildFailed ==
  /\ buildOutcome' = "build_failed"
  /\ bpc' = "idle"
  /\ BuildLocalsReset

\* step 3: FAISS.from_documents embeds every chunk; it may raise
FromDocuments ==
  /\ bpc = "embed"
  /\ \/ /\ db' = IndexFile(texts, BUILD_EMBEDDING_MODEL, nBuilds)
        /\ bpc' = "save_faiss"
        /\ UNCHANGED <<files, documents, texts, firstPass, secondPassRan, buildOutcome>>
     \/ BuildFailed
  /\ UNCHANGED <<kbDirExists, disk, preRun, nBuilds>>
  /\ UNCHANGED appVars

\* step 4, db.save_local: create the directory and write index.faiss
SaveFaiss ==
  /\ bpc = "save_faiss"
  /\ \/ /\ disk' = [disk EXCEPT !.exists = TRUE, !.faiss = db]
        /\ bpc' = "save_pkl"
        /\ UNCHANGED <<files, documents, texts, firstPass, secondPassRan, db, buildOutcome>>
     \/ /\ \E d \in {disk,
                     [disk EXCEPT !.exists = TRUE],
                     [disk EXCEPT !.exists = TRUE, !.faiss = Corrupt]} : disk' = d
        /\ BuildFailed
  /\ UNCHANGED <<kbDirExists, preRun, nBuilds>>
  /\ UNCHANGED appVars

\* step 4, db.save_local: write index.pkl
SavePkl ==
  /\ bpc = "save_pkl"
  /\ \/ /\ disk' = [disk EXCEPT !.pkl = db]
        /\ buildOutcome' = "ok"
        /\ bpc' = "idle"
        /\ BuildLocalsReset
     \/ /\ \E d \in {disk, [disk EXCEPT !.pkl = Corrupt]} : disk' = d
        /\ BuildFailed
  /\ UNCHANGED <<kbDirExists, preRun, nBuilds>>
  /\ UNCHANGED appVars

NextBuild ==
  \/ MainCreateDir
  \/ BuildStart
  \/ LoadDocuments
  \/ SplitFirst
  \/ SplitSecond
  \/ CheckTexts
  \/ FromDocuments
  \/ SaveFaiss
  \/ SavePkl

\* ------------------------------------------------------------------------
\* FAISS: load_local and similarity_search
\* ------------------------------------------------------------------------
\* os.path.exists(FAISS_INDEX_PATH)
path_exists(d) == d.exists

\* FAISS.load_local raises unless both files of the index can be read
CanLoadLocal(d) == d.exists /\ d.faiss.kind = "index" /\ d.pkl.kind = "index"

\* the vectors come from index.faiss
load_local(d) == d.faiss

\* the similarity of every index entry to one question
ScoreFns(n) == [1..n -> 0..MaxScore]

\* the k entries of highest score, best first, ties in insertion order
RECURSIVE TopK(_, _, _)
TopK(scores, remaining, k) ==
  IF k = 0 \/ remaining = {} THEN <<>>
  ELSE LET best == CHOOSE i \in remaining :
                     \A j \in remaining :
                       \/ scores[i] > scores[j]
                       \/ scores[i] = scores[j] /\ i <= j
       IN  <<[id |-> best, score |-> scores[best]]>>
             \o TopK(scores, remaining \ {best}, k - 1)

\* the first k entries in insertion order, whatever their score
FirstK(scores, k) ==
  [i \in 1..(IF Len(scores) < k THEN Len(scores) ELSE k) |->
     [id |-> i, score |-> scores[i]]]

similarity_search_unranked(scores, k) == FirstK(scores, k)
similarity_search(scores, k) == TopK(scores, DOMAIN scores, k)

\* the scores of the documents a search returned, in the order returned
ScoresOf(results) == [i \in 1..Len(results) |-> results[i].score]

\* ------------------------------------------------------------------------
\* app.py
\* ------------------------------------------------------------------------
NoneChain == [kind |-> "None", db |-> NoFile]
Unrun == [kind |-> "unrun", db |-> NoFile]
Chain(index) == [kind |-> "chain", db |-> index]

UserMsg == [role |-> "user", content |-> "question"]
AssistantMsg(content) == [role |-> "assistant", content |-> content]

\* turn: questions the session has asked so far; context: scores of the
\* chunks the retriever returned; source_docs: scores of the chunks cited
NoRequest ==
  [turn |-> 0, retrieved |-> FALSE, llmInvoked |-> FALSE, response |-> "none",
   queryModel |-> "", indexModel |-> "", entries |-> 0,
   context |-> <<>>, source_docs |-> <<>>]

NoRetrieval == [ran |-> FALSE, queryModel |-> "", index |-> NoFile,
                scores |-> <<>>, results |-> <<>>]

InitAppVars ==
  /\ cache = [set |-> FALSE, value |-> NoneChain]
  /\ loadCount = 0
  /\ initError = "none"
  /\ session = 1
  /\ rag_chain = Unrun
  /\ hasMessages = FALSE
  /\ messages = <<>>
  /\ request = NoRequest
  /\ retrieval = NoRetrieval

\* st.cache_resource: the body runs only when no entry is stored
CacheHit_unless_None(c) == c.set /\ c.value.kind = "chain"
CacheHit(c) == c.set

\* the body of load_rag_chain: <<returned value, error shown>>.
\* raises: a constructor or the unpickling raised inside the try
LoadBody(d, raises) ==
  IF ~path_exists(d) THEN <<NoneChain, "missing_index">>
  ELSE IF ~CanLoadLocal(d) \/ raises THEN <<NoneChain, "init_failed">>
  ELSE <<Chain(load_local(d)), "none">>

\* "if rag_chain:"
ChainUsable_always(c) == TRUE
ChainUsable(c) == c.kind = "chain"

\* "except Exception as e:" around rag_chain.invoke
ExceptionCaught_never == FALSE
ExceptionCaught == TRUE

AppendUser(msgs) == Append(msgs, UserMsg)

AppendAssistant_dropped(msgs, content) == msgs
AppendAssistant(msgs, content) == Append(msgs, AssistantMsg(content))

\* rag_chain = load_rag_chain() at the top of every script run
LoadRagChain ==
  IF CacheHit(cache)
  THEN /\ rag_chain' = cache.value
       /\ UNCHANGED <<cache, loadCount, initError>>
  ELSE \E raises \in BOOLEAN :
         LET r == LoadBody(disk, raises)
         IN  /\ cache' = [set |-> TRUE, value |-> r[1]]
             /\ loadCount' = loadCount + 1
             /\ initError' = r[2]
             /\ rag_chain' = r[1]

\* a browser opens a new session: st.session_state starts empty
NewSession ==
  /\ session < MaxSessions
  /\ session' = session + 1
  /\ rag_chain' = Unrun
  /\ hasMessages' = FALSE
  /\ messages' = <<>>
  /\ request' = NoRequest
  /\ UNCHANGED <<cache, loadCount, initError, retrieval>>
  /\ UNCHANGED buildVars

\* a script run in which st.chat_input returns nothing
Rerun ==
  /\ LoadRagChain
  /\ IF ChainUsable(rag_chain')
     THEN hasMessages' = TRUE
     ELSE UNCHANGED hasMessages
  /\ UNCHANGED <<session, messages, request, retrieval>>
  /\ UNCHANGED buildVars

\* rag_chain.invoke on a chain that is None, or whose retriever raised
InvokeRaisedEarly ==
  [NoRequest EXCEPT !.response = "error"]

\* rag_chain.invoke once the retriever has returned: the language model is
\* called with whatever was retrieved; answered is FALSE when that call raised
InvokeRetrieved(chain, scores, answered) ==
  LET docs == ScoresOf(similarity_search(scores, SearchK))
  IN  [turn |-> 0, retrieved |-> TRUE, llmInvoked |-> TRUE,
       response |-> IF answered THEN "answer" ELSE "error",
       queryModel |-> APP_EMBEDDING_MODEL, indexModel |-> chain.db.model,
       entries |-> chain.db.n,
       context |-> docs,
       source_docs |-> IF answered THEN docs ELSE <<>>]

\* the rest of the script run once the outcome of invoke is known
Respond(r) ==
  /\ request' = [r EXCEPT !.turn = request.turn + 1]
  /\ messages' =
       IF r.response = "error" /\ ~ExceptionCaught
       THEN AppendUser(messages)
       ELSE AppendAssistant(AppendUser(messages), r.response)

\* a script run in which st.chat_input returns a question
Ask ==
  /\ Len(messages) < 2 * MaxTurns
  /\ LoadRagChain
  /\ ChainUsable(rag_chain')
  /\ hasMessages' = TRUE
  /\ \/ Respond(InvokeRaisedEarly)
     \/ /\ rag_chain'.kind = "chain"
        /\ \E scores \in ScoreFns(rag_chain'.db.n), answered \in BOOLEAN :
             Respond(InvokeRetrieved(rag_chain', scores, answered))
  /\ UNCHANGED <<session, retrieval>>
  /\ UNCHANGED buildVars

\* ------------------------------------------------------------------------
\* test_retrieval.py
\* ------------------------------------------------------------------------
TestRetrieval ==
  /\ CanLoadLocal(disk)
  /\ \E scores \in ScoreFns(load_local(disk).n) :
       retrieval' = [ran |-> TRUE, queryModel |-> TEST_EMBEDDING_MODEL,
                     index |-> load_local(disk), scores |-> scores,
                     results |-> similarity_search(scores, TestK)]
  /\ UNCHANGED <<cache, loadCount, initError, session, rag_chain, hasMessages,
                 messages, request>>
  /\ UNCHANGED buildVars

NextApp ==
  \/ NewSession
  \/ Rerun
  \/ Ask

NextRetrieve == TestRetrieval

\* ------------------------------------------------------------------------
\* Specifications
\* ------------------------------------------------------------------------
Init == InitBuild /\ InitAppVars

Next == NextBuild \/ NextApp \/ NextRetrieve

\* the whole system: the build script, the application and the test script
Spec == Init /\ [][Next]_vars

\* the build script alone
SpecBuild == Init /\ [][NextBuild]_vars

\* everything the build script can leave at FAISS_INDEX_PATH
IndexFiles ==
  {NoFile, Corrupt} \cup
  { IndexFile(n, BUILD_EMBEDDING_MODEL, b) : n \in 1..MaxChunks, b \in 1..MaxBuilds }

BuiltDisks ==
  { d \in [exists : BOOLEAN, faiss : IndexFiles, pkl : IndexFiles] :
      /\ ~d.exists => d = NoIndexDir
      /\ d.faiss.kind = "none" => d.pkl.kind = "none"
      /\ d.pkl.kind = "index" /\ d.faiss.kind = "index" =>
           /\ d.faiss.build >= d.pkl.build
           /\ d.faiss.build = d.pkl.build => d.faiss.n = d.pkl.n }

DiskIsBuilt == disk \in BuiltDisks

\* those that hold no file of a later run than the first
FirstBuildDisks ==
  { d \in BuiltDisks : d.faiss.build <= 1 /\ d.pkl.build <= 1 }

\* the build script is at rest and has left FAISS_INDEX_PATH in one of these
InitBuilt ==
  /\ InitAppVars
  /\ kbDirExists = TRUE
  /\ disk \in FirstBuildDisks
  /\ bpc = "idle"
  /\ files = <<>>
  /\ documents = 0
  /\ texts = 0
  /\ firstPass = -1
  /\ secondPassRan = FALSE
  /\ db = NoFile
  /\ buildOutcome = "none"
  /\ preRun = NoIndexDir
  /\ nBuilds = 0

\* the application against that directory
SpecApp == InitBuilt /\ [][NextApp]_vars

\* the test script against that directory
SpecRetrieve == InitBuilt /\ [][NextRetrieve]_vars

\* ------------------------------------------------------------------------
\* Properties
\* ------------------------------------------------------------------------
AfterLoad == {"split1", "split2", "checked", "embed", "save_faiss", "save_pkl"}
AfterCheck == {"embed", "save_faiss", "save_pkl"}
FailureOutcomes == {"no_documents", "no_chunks", "build_failed"}

DiskHoldsNothing(d) == d.faiss.kind = "none" /\ d.pkl.kind = "none"

\* C1: a run of build_index that loads no document (no file, only unsupported
\* extensions, or every loader raising) ends at once with the "no documents"
\* diagnostic, goes through no chunking, embedding or save step, and leaves
\* the index path as it was before the run.
C1_EmptyCorpusAborts ==
  /\ [](bpc \in AfterLoad => documents > 0)
  /\ [][bpc = "load" /\ LoadAll(files) = 0 =>
          /\ bpc' = "idle"
          /\ buildOutcome' = "no_documents"
          /\ disk' = disk
          /\ disk' = preRun]_vars

C1_Witness ==
  /\ bpc = "idle"
  /\ buildOutcome = "no_documents"
  /\ nBuilds = 2
  /\ CanLoadLocal(preRun)
  /\ disk = preRun

\* C2: after a run of build_index that ended in failure, the index path
\* holds what it held before the run, or nothing.
C2_NoPartialIndex ==
  bpc = "idle" /\ buildOutcome \in FailureOutcomes =>
    disk = preRun \/ DiskHoldsNothing(disk)

\* C8: the second splitting pass runs if and only if the first returned zero
\* chunks, embedding and index construction are reached only with a non-empty
\* chunk list, and the build returns before embedding exactly when both
\* passes returned zero chunks.
C8_RetryOnZeroChunks ==
  /\ [](bpc \in {"checked"} \cup AfterCheck => (secondPassRan <=> firstPass = 0))
  /\ [](bpc = "split2" => firstPass = 0)
  /\ [](bpc \in AfterCheck => texts > 0)
  /\ [][bpc = "checked" =>
          ((bpc' = "idle" /\ buildOutcome' = "no_chunks")
             <=> (firstPass = 0 /\ secondPassRan /\ texts = 0))]_vars
  /\ [][bpc = "checked" /\ bpc' # "idle" => bpc' = "embed"]_vars

C8_Witness ==
  /\ bpc = "embed"
  /\ firstPass = 0
  /\ secondPassRan
  /\ texts > 0

\* C3: whenever the application has searched an index, the embedding model
\* it embedded the question with is the one the index was built with.
C3_SameEmbeddingModel ==
  request.retrieved => request.queryModel = request.indexModel

BestScore(docs) == IF docs = <<>> THEN -1 ELSE docs[1]

\* C4: a question whose best retrieved score is below the threshold, or for
\* which nothing is retrieved, gets the fixed "no information" response and
\* the language model is not called; the model is called only when some
\* retrieved chunk scores at or above the threshold.
C4_NoInformationBelowThreshold ==
  request.retrieved =>
    /\ BestScore(request.context) < ScoreThreshold =>
         request.response = "no_information" /\ ~request.llmInvoked
    /\ request.llmInvoked => BestScore(request.context) >= ScoreThreshold

\* C5: when the index directory is absent as load_rag_chain runs, it returns
\* None and shows the error that asks for a rebuild; no question is taken, no
\* retrieval or language model call is made and the chat history is never
\* created.
C5_MissingIndex ==
  cache.set /\ ~path_exists(disk) =>
    /\ cache.value = NoneChain
    /\ initError = "missing_index"
    /\ rag_chain \in {Unrun, NoneChain}
    /\ ~hasMessages
    /\ messages = <<>>
    /\ request = NoRequest
    /\ ~ENABLED Ask

C5_Witness ==
  /\ ~path_exists(disk)
  /\ cache.set
  /\ rag_chain = NoneChain
  /\ session = 2

\* C6: when the retrieval chain or the language model raises, the request
\* still completes: the reply is the error message with no citation, it is
\* stored after the question in the chat history, and the next question can
\* be asked.
C6_DegradedAnswer ==
  request.response = "error" =>
    /\ request.source_docs = <<>>
    /\ hasMessages
    /\ Len(messages) >= 2
    /\ messages[Len(messages) - 1] = UserMsg
    /\ messages[Len(messages)] = AssistantMsg("error")
    /\ Len(messages) < 2 * MaxTurns => ENABLED Ask

C6_Witness ==
  /\ request.response = "error"
  /\ request.llmInvoked
  /\ Len(messages) = 2

\* C7: the body of load_rag_chain runs at most once; once its result is
\* stored it never changes, and every script run uses that result, a None
\* included.
C7_InitializedOnce ==
  /\ [](loadCount <= 1)
  /\ [](cache.set <=> loadCount = 1)
  /\ [](rag_chain # Unrun => cache.set /\ rag_chain = cache.value)
  /\ [][cache.set => cache' = cache /\ loadCount' = loadCount]_vars

C7_Witness ==
  /\ session = 2
  /\ rag_chain = NoneChain
  /\ loadCount = 1
  /\ initError = "init_failed"

NonIncreasing(results) ==
  \A i \in 1..(Len(results) - 1) : results[i].score >= results[i + 1].score

DistinctEntries(results, n) ==
  /\ \A i \in 1..Len(results) : results[i].id \in 1..n
  /\ \A i, j \in 1..Len(results) : i # j => results[i].id # results[j].id

AppCitationsBounded ==
  /\ Len(request.context) <= 3
  /\ Len(request.context) <= request.entries
  /\ Len(request.source_docs) <= 3
  /\ \A i \in 1..(Len(request.context) - 1) :
       request.context[i] >= request.context[i + 1]

Alternates(msgs) ==
  \A i \in 1..Len(msgs) :
    msgs[i].role = (IF i % 2 = 1 THEN "user" ELSE "assistant")

IsPrefix(a, b) ==
  /\ Len(a) <= Len(b)
  /\ \A i \in 1..Len(a) : a[i] = b[i]

\* C10: the message list of a session has even length and alternates user,
\* assistant; a question appends one user message then one assistant
\* message, earlier messages stay as they are, and a script run without a
\* question leaves the list unchanged.
C10_ChatHistory ==
  /\ [](Len(messages) % 2 = 0 /\ Alternates(messages))
  /\ [](Len(messages) = 2 * request.turn)
  /\ [][session' = session =>
          /\ IsPrefix(messages, messages')
          /\ request'.turn = request.turn + 1 =>
                /\ Len(messages') = Len(messages) + 2
                /\ messages'[Len(messages) + 1] = UserMsg
                /\ messages'[Len(messages) + 2].role = "assistant"
          /\ request'.turn = request.turn => messages' = messages]_vars

C10_Witness ==
  /\ Len(messages) = 4
  /\ messages[2] = AssistantMsg("error")
  /\ messages[4] = AssistantMsg("answer")
====
